---- MODULE Spec2Model ----
(***************************************************************************)
(* A model of py-ssz: the List sedes (ssz/sedes/list.py), the codec        *)
(* (ssz/codec.py) and the tree-hash engine exercised by                    *)
(* tests/tree_hash/test_tree_hash.py.                                      *)
(*                                                                         *)
(* Python values are tagged records [t |-> <type>, v |-> <payload>], so    *)
(* that isinstance checks, truthiness and list/tuple inequality can be     *)
(* modelled.  Byte strings are sequences of digits 0 .. ByteBase-1.  A     *)
(* raised exception is a result record whose err field names its class.    *)
(***************************************************************************)
EXTENDS Integers, Sequences, FiniteSets, TLC

(***************************************************************************)
(* Bounds of the model.                                                    *)
(***************************************************************************)
\* Number of values of one byte.  A Python byte has 256; the model is
\* parametric in it and uses a narrow byte, so that every byte string up to
\* MaxDataLen is enumerated and the capacity of the length prefix is reached
\* by short lists.
ByteBase == 4
\* Width in bytes of a list's length prefix (ssz.constants, imported at
\* list.py:6).  The code is parametric in it.
LIST_PREFIX_LENGTH == 2
\* Longest byte string handed to deserialize / deserialize_segment.
MaxDataLen == 7
\* Longest top-level list handed to serialize / encode / hash_tree_root.
MaxElems == 4
\* Deepest nesting of List sedes that List.__init__ is asked to build.
MaxNesting == 2

(***************************************************************************)
(* Python values                                                           *)
(***************************************************************************)
PyNone == [t |-> "NoneType", v |-> 0]
PyBool(b) == [t |-> "bool", v |-> b]
PyInt(n) == [t |-> "int", v |-> n]
PyStr(s) == [t |-> "str", v |-> s]
PyBytes(bs) == [t |-> "bytes", v |-> bs]
PyList(xs) == [t |-> "list", v |-> xs]
PyTuple(xs) == [t |-> "tuple", v |-> xs]
\* an arbitrary object with no sedes capability
PyObject == [t |-> "object", v |-> 0]
\* a sedes object passed around as a value
PySedes(s) == [t |-> "sedes", v |-> s]

\* isinstance(val, Iterable)
IsIterable(val) == val.t \in {"list", "tuple", "str", "bytes", "bytearray"}

\* isinstance(val, (bytes, bytearray, str))
IsStringLike(val) == val.t \in {"bytes", "bytearray", "str"}

\* bool(x): the truth value Python's `if x:` tests
Truthy(x) ==
    CASE x.t = "NoneType" -> FALSE
      [] x.t = "bool" -> x.v
      [] x.t = "int" -> x.v # 0
      [] x.t = "str" -> x.v # ""
      [] x.t \in {"list", "tuple", "bytes", "bytearray"} -> Len(x.v) # 0
      [] OTHER -> TRUE

(***************************************************************************)
(* Results of calls: a returned value or a raised exception.               *)
(*   err   "none" or the exception class                                   *)
(*   msg   the exception's message                                         *)
(*   val   the returned value                                              *)
(*   end   the index returned by deserialize_segment                       *)
(*   over  observation: some element_sedes.deserialize_segment call made   *)
(*         while computing this result returned an index greater than the  *)
(*         list_end_index of the list it was decoding for                  *)
(*   calls observation: the collaborators encode called, in order          *)
(***************************************************************************)
Return(v) ==
    [err |-> "none", msg |-> "", val |-> v, end |-> 0, over |-> FALSE, calls |-> <<>>]

ReturnAt(v, e, o) ==
    [err |-> "none", msg |-> "", val |-> v, end |-> e, over |-> o, calls |-> <<>>]

Raise(e, m) ==
    [err |-> e, msg |-> m, val |-> PyNone, end |-> 0, over |-> FALSE, calls |-> <<>>]

NoResult == Raise("nothing", "")

(***************************************************************************)
(* Integers and bytes                                                      *)
(***************************************************************************)
RECURSIVE Pow(_, _)
Pow(b, n) == IF n = 0 THEN 1 ELSE b * Pow(b, n - 1)

\* number of base-ByteBase digits of n (0 has none)
RECURSIVE NumDigits(_)
NumDigits(n) == IF n = 0 THEN 0 ELSE 1 + NumDigits(n \div ByteBase)

\* the digit of weight ByteBase^k in n
Digit(n, k) == IF k >= NumDigits(n) THEN 0 ELSE (n \div Pow(ByteBase, k)) % ByteBase

\* n.to_bytes(length, 'big'), for n that fits
to_bytes(n, length) == [i \in 1..length |-> Digit(n, length - i)]

\* the value of the bytes, most significant first (the two halves are
\* combined, so that long strings of leading zero bytes cost nothing)
RECURSIVE BigEndian(_)
BigEndian(bs) ==
    IF Len(bs) = 0 THEN 0
    ELSE IF Len(bs) = 1 THEN bs[1]
    ELSE LET half == Len(bs) \div 2
             high == BigEndian(SubSeq(bs, 1, half))
             low == BigEndian(SubSeq(bs, half + 1, Len(bs)))
         IN  IF high = 0 THEN low ELSE high * Pow(ByteBase, Len(bs) - half) + low

\* int.from_bytes(bs, 'big')
from_bytes(bs) == BigEndian(bs)

Min(a, b) == IF a < b THEN a ELSE b

\* data[a:b] for 0 <= a <= b
Slice(data, a, b) == SubSeq(data, a + 1, Min(b, Len(data)))

Zeros(n) == [i \in 1..n |-> 0]

\* 2 ** (LIST_PREFIX_LENGTH * 8), with ByteBase for 2 ** 8
MAX_LEN_SERIALIZED_LIST_OBJECT == Pow(ByteBase, LIST_PREFIX_LENGTH)

(***************************************************************************)
(* Sedes objects                                                           *)
(***************************************************************************)
\* the value None in a List's element_sedes attribute
NoSedes == [kind |-> "None"]

\* fixed-size scalars of ssz.sedes
Boolean == [kind |-> "Boolean", size |-> 1, element_sedes |-> NoSedes, empty |-> FALSE]

UInt(bits) ==
    [kind |-> "UInt", size |-> bits \div 8, element_sedes |-> NoSedes, empty |-> FALSE]

boolean == Boolean
uint16 == UInt(16)
uint32 == UInt(32)
uint512 == UInt(512)

IsNone(s) == s.kind = "None"

\* List.__init__: the object it builds, or the ValueError it raises
List_init(element_sedes, empty) ==
    IF ~IsNone(element_sedes) /\ empty
    THEN Raise("ValueError", "Either one of Element Sedes or Empty has to be specified")
    ELSE IF IsNone(element_sedes) /\ ~empty
    THEN Raise("ValueError", "Either Element Sedes or Empty has to be specified")
    ELSE Return(PySedes([kind |-> "List", size |-> 0,
                         element_sedes |-> element_sedes, empty |-> empty]))

\* the instances created at module level
boolean_list == List_init(boolean, FALSE).val.v
empty_list == List_init(NoSedes, TRUE).val.v
uint32_list == List_init(uint32, FALSE).val.v

(***************************************************************************)
(* Fixed-size scalar sedes (spec section 4.1)                              *)
(***************************************************************************)
Boolean_serialize(val) ==
    IF val.t # "bool"
    THEN Raise("SerializationError", "Can only serialize boolean values")
    ELSE Return(IF val.v THEN <<1>> ELSE <<0>>)

Boolean_deserialize_segment(data, start_index) ==
    IF Len(data) < start_index + 1
    THEN Raise("DeserializationError", "Insufficient data")
    ELSE ReturnAt(PyBool(data[start_index + 1] # 0), start_index + 1, FALSE)

UInt_serialize(self, val) ==
    IF val.t # "int" \/ val.v < 0 \/ NumDigits(val.v) > self.size
    THEN Raise("SerializationError", "Can only serialize non-negative integers in range")
    ELSE Return(to_bytes(val.v, self.size))

UInt_deserialize_segment(self, data, start_index) ==
    IF Len(data) < start_index + self.size
    THEN Raise("DeserializationError", "Insufficient data")
    ELSE ReturnAt(PyInt(from_bytes(Slice(data, start_index, start_index + self.size))),
                  start_index + self.size, FALSE)

(***************************************************************************)
(* List sedes                                                              *)
(***************************************************************************)
RECURSIVE sedes_serialize(_, _)
RECURSIVE sedes_deserialize_segment(_, _, _)

\* b"".join(self.element_sedes.serialize(element) for element in val)
RECURSIVE join_serialized(_, _)
join_serialized(element_sedes, items) ==
    IF Len(items) = 0 THEN Return(<<>>)
    ELSE LET first == sedes_serialize(element_sedes, Head(items)) IN
         IF first.err # "none" THEN first
         ELSE LET rest == join_serialized(element_sedes, Tail(items)) IN
              IF rest.err # "none" THEN rest
              ELSE Return(first.val \o rest.val)

\* the length field holds the number of elements
List_serialize_element_count(self, val) ==
    IF ~IsIterable(val) \/ IsStringLike(val)
    THEN Raise("SerializationError", "Can only serialize Iterable objects, except Dictionaries")
    ELSE IF self.empty /\ Len(val.v) # 0
    THEN Raise("ValueError", "Empty List Sedes cannot serialize non-empty Iterables")
    ELSE LET joined == join_serialized(self.element_sedes, val.v) IN
         IF joined.err # "none" THEN joined
         ELSE IF Len(joined.val) >= MAX_LEN_SERIALIZED_LIST_OBJECT
         THEN Raise("SerializationError", "List too long to fit into bytes after serialization")
         ELSE Return(to_bytes(Len(val.v), LIST_PREFIX_LENGTH) \o joined.val)

\* the empty flag is not consulted
List_serialize_no_empty_check(self, val) ==
    IF ~IsIterable(val) \/ IsStringLike(val)
    THEN Raise("SerializationError", "Can only serialize Iterable objects, except Dictionaries")
    ELSE LET joined == join_serialized(self.element_sedes, val.v) IN
         IF joined.err # "none" THEN joined
         ELSE IF Len(joined.val) >= MAX_LEN_SERIALIZED_LIST_OBJECT
         THEN Raise("SerializationError", "List too long to fit into bytes after serialization")
         ELSE Return(to_bytes(Len(joined.val), LIST_PREFIX_LENGTH) \o joined.val)

\* List.serialize
List_serialize(self, val) ==
    IF ~IsIterable(val) \/ IsStringLike(val)
    THEN Raise("SerializationError", "Can only serialize Iterable objects, except Dictionaries")
    ELSE IF self.empty /\ Len(val.v) # 0
    THEN Raise("ValueError", "Empty List Sedes cannot serialize non-empty Iterables")
    ELSE LET joined == join_serialized(self.element_sedes, val.v) IN
         IF joined.err # "none" THEN joined
         ELSE IF Len(joined.val) >= MAX_LEN_SERIALIZED_LIST_OBJECT
         THEN Raise("SerializationError", "List too long to fit into bytes after serialization")
         ELSE IF NumDigits(Len(joined.val)) > LIST_PREFIX_LENGTH
         THEN Raise("OverflowError", "int too big to convert")
         ELSE Return(to_bytes(Len(joined.val), LIST_PREFIX_LENGTH) \o joined.val)

\* each element is put in front of the ones decoded before it
RECURSIVE deserialize_elements_prepending(_, _, _, _, _, _)
deserialize_elements_prepending(element_sedes, data, element_start_index, list_end_index, deserialized_list, over) ==
    IF element_start_index < list_end_index
    THEN LET r == sedes_deserialize_segment(element_sedes, data, element_start_index) IN
         IF r.err # "none" THEN r
         ELSE deserialize_elements_prepending(element_sedes, data, r.end, list_end_index,
                                              <<r.val>> \o deserialized_list,
                                              over \/ r.over \/ r.end > list_end_index)
    ELSE ReturnAt(PyTuple(deserialized_list), list_end_index, over)

\* the while loop of List.deserialize_segment
RECURSIVE deserialize_elements(_, _, _, _, _, _)
deserialize_elements(element_sedes, data, element_start_index, list_end_index, deserialized_list, over) ==
    IF element_start_index < list_end_index
    THEN LET r == sedes_deserialize_segment(element_sedes, data, element_start_index) IN
         IF r.err # "none" THEN r
         ELSE deserialize_elements(element_sedes, data, r.end, list_end_index,
                                   Append(deserialized_list, r.val),
                                   over \/ r.over \/ r.end > list_end_index)
    ELSE ReturnAt(PyTuple(deserialized_list), list_end_index, over)

\* the prefix bytes are read by index, with no check that they are there
List_deserialize_segment_indexed_prefix(self, data, start_index) ==
    IF Len(data) < start_index + LIST_PREFIX_LENGTH
    THEN Raise("IndexError", "index out of range")
    ELSE LET list_length ==
                 from_bytes(Slice(data, start_index, start_index + LIST_PREFIX_LENGTH))
             list_end_index == start_index + LIST_PREFIX_LENGTH + list_length
         IN  IF Len(data) < list_end_index
             THEN Raise("DeserializationError",
                        "Insufficient data: Cannot retrieve the whole list data")
             ELSE deserialize_elements(self.element_sedes, data,
                                       start_index + LIST_PREFIX_LENGTH,
                                       list_end_index, <<>>, FALSE)

\* List.deserialize_segment
List_deserialize_segment(self, data, start_index) ==
    IF Len(data) < start_index + LIST_PREFIX_LENGTH
    THEN Raise("DeserializationError",
               "Insufficient data: Cannot retrieve the length of list")
    ELSE LET list_length ==
                 from_bytes(Slice(data, start_index, start_index + LIST_PREFIX_LENGTH))
             list_end_index == start_index + LIST_PREFIX_LENGTH + list_length
         IN  IF Len(data) < list_end_index
             THEN Raise("DeserializationError",
                        "Insufficient data: Cannot retrieve the whole list data")
             ELSE deserialize_elements(self.element_sedes, data,
                                       start_index + LIST_PREFIX_LENGTH,
                                       list_end_index, <<>>, FALSE)

\* the end index is not compared with len(data)
List_deserialize_no_length_check(self, data) ==
    LET r == List_deserialize_segment(self, data, 0) IN
    IF r.err # "none" THEN r ELSE ReturnAt(r.val, r.end, r.over)

\* List.deserialize
List_deserialize(self, data) ==
    LET r == List_deserialize_segment(self, data, 0) IN
    IF r.err # "none" THEN r
    ELSE IF r.end # Len(data)
    THEN Raise("DeserializationError", "Data to be deserialized is too long")
    ELSE ReturnAt(r.val, r.end, r.over)

(***************************************************************************)
(* Dynamic dispatch of sedes.serialize / deserialize_segment / deserialize *)
(***************************************************************************)
sedes_serialize(s, val) ==
    CASE s.kind = "List" -> List_serialize(s, val)
      [] s.kind = "Boolean" -> Boolean_serialize(val)
      [] s.kind = "UInt" -> UInt_serialize(s, val)
      [] OTHER -> Raise("AttributeError", "'NoneType' object has no attribute 'serialize'")

sedes_deserialize_segment(s, data, start_index) ==
    CASE s.kind = "List" -> List_deserialize_segment(s, data, start_index)
      [] s.kind = "Boolean" -> Boolean_deserialize_segment(data, start_index)
      [] s.kind = "UInt" -> UInt_deserialize_segment(s, data, start_index)
      [] OTHER -> Raise("AttributeError",
                        "'NoneType' object has no attribute 'deserialize_segment'")

\* a scalar's deserialize: the segment must be the whole input
Scalar_deserialize(s, data) ==
    LET r == sedes_deserialize_segment(s, data, 0) IN
    IF r.err # "none" THEN r
    ELSE IF r.end # Len(data)
    THEN Raise("DeserializationError", "Data to be deserialized is too long")
    ELSE ReturnAt(r.val, r.end, r.over)

sedes_deserialize(s, data) ==
    CASE s.kind = "List" -> List_deserialize(s, data)
      [] s.kind \in {"Boolean", "UInt"} -> Scalar_deserialize(s, data)
      [] OTHER -> Raise("AttributeError", "'NoneType' object has no attribute 'deserialize'")

(***************************************************************************)
(* Codec                                                                   *)
(***************************************************************************)
\* ssz.sedes.sedes_by_name: the registry of sedes singletons
RegisteredNames ==
    {"boolean", "uint16", "uint32", "uint512", "boolean_list", "empty_list", "uint32_list"}

sedes_by_name ==
    [name \in RegisteredNames |->
        CASE name = "boolean" -> boolean
          [] name = "uint16" -> uint16
          [] name = "uint32" -> uint32
          [] name = "uint512" -> uint512
          [] name = "boolean_list" -> boolean_list
          [] name = "empty_list" -> empty_list
          [] OTHER -> uint32_list]

\* `sedes in sedes_by_name`
InRegistry(x) == x.t = "str" /\ x.v \in RegisteredNames

\* ssz.utils.is_sedes: the object has serialize and deserialize_segment
is_sedes(obj) == obj.t = "sedes"

\* ssz.utils.infer_sedes: a sedes picked from the native shape of the value
RECURSIVE infer_sedes(_)
infer_sedes(obj) ==
    CASE obj.t = "bool" -> Return(PySedes(boolean))
      [] obj.t \in {"list", "tuple"} ->
            IF Len(obj.v) = 0 THEN Return(PySedes(empty_list))
            ELSE LET first == infer_sedes(obj.v[1]) IN
                 IF first.err # "none" THEN first
                 ELSE List_init(first.val.v, FALSE)
      [] OTHER -> Raise("TypeError", "Did not find sedes handling type")

WithCalls(r, cs) == [r EXCEPT !.calls = cs]

\* codec.encode
encode(obj, sedes) ==
    IF Truthy(sedes)
    THEN LET sedes_obj == IF InRegistry(sedes) THEN PySedes(sedes_by_name[sedes.v])
                          ELSE sedes
         IN  IF ~is_sedes(sedes_obj)
             THEN WithCalls(Raise("InvalidSedesError", "Invalid sedes object"),
                            <<"is_sedes">>)
             ELSE WithCalls(sedes_serialize(sedes_obj.v, obj), <<"is_sedes", "serialize">>)
    ELSE LET inferred == infer_sedes(obj) IN
         IF inferred.err # "none" THEN WithCalls(inferred, <<"infer_sedes">>)
         ELSE WithCalls(sedes_serialize(inferred.val.v, obj), <<"infer_sedes", "serialize">>)

\* eth_utils.is_bytes
is_bytes(x) == x.t \in {"bytes", "bytearray"}

\* codec.decode
decode(ssz, sedes) ==
    IF ~is_bytes(ssz)
    THEN Raise("DecodingError", "Can only decode SSZ bytes")
    ELSE sedes_deserialize(sedes, ssz.v)

(***************************************************************************)
(* Tree hash (spec section 4.4)                                            *)
(***************************************************************************)
\* bytes in a chunk
CHUNK_SIZE == 32

ZeroChunk == Zeros(CHUNK_SIZE)

\* the 32-byte hash of two 32-byte half-blocks: a fixed mixing function that
\* is neither projection and does not fix the zero block
hash(left, right) ==
    [i \in 1..CHUNK_SIZE |-> (left[i] + 2 * right[i] + 1) % ByteBase]

\* the serialization cut into chunks with no padding of the last one
chunkify_unpadded(bs) ==
    LET n == (Len(bs) + CHUNK_SIZE - 1) \div CHUNK_SIZE IN
    [k \in 1..n |-> Slice(bs, (k - 1) * CHUNK_SIZE, k * CHUNK_SIZE)]

\* the serialization cut into 32-byte chunks, the last one zero-padded on the right
chunkify(bs) ==
    LET n == (Len(bs) + CHUNK_SIZE - 1) \div CHUNK_SIZE IN
    [k \in 1..n |->
        [i \in 1..CHUNK_SIZE |->
            IF (k - 1) * CHUNK_SIZE + i <= Len(bs) THEN bs[(k - 1) * CHUNK_SIZE + i] ELSE 0]]

\* one level up: sibling pairs hashed, an odd level completed by the zero chunk
hash_level(chunks) ==
    LET padded == IF Len(chunks) % 2 = 1 THEN Append(chunks, ZeroChunk) ELSE chunks IN
    [k \in 1..(Len(padded) \div 2) |-> hash(padded[2 * k - 1], padded[2 * k])]

\* a lone chunk is hashed with the zero chunk as well
RECURSIVE merkleize_hash_single(_)
merkleize_hash_single(chunks) ==
    IF Len(chunks) = 0 THEN ZeroChunk
    ELSE IF Len(chunks) = 1 THEN hash(chunks[1], ZeroChunk)
    ELSE merkleize_hash_single(hash_level(chunks))

\* the Merkle root of a sequence of chunks
RECURSIVE merkleize(_)
merkleize(chunks) ==
    IF Len(chunks) = 0 THEN ZeroChunk
    ELSE IF Len(chunks) = 1 THEN chunks[1]
    ELSE merkleize(hash_level(chunks))

\* the root hashed together with the 32-byte encoding of the element count
mix_in_length(root, length) == hash(root, to_bytes(length, CHUNK_SIZE))

RECURSIVE hash_tree_root(_, _)

\* the roots of the elements of a list, in order
RECURSIVE element_roots(_, _)
element_roots(element_sedes, items) ==
    IF Len(items) = 0 THEN Return(<<>>)
    ELSE LET first == hash_tree_root(Head(items), element_sedes) IN
         IF first.err # "none" THEN first
         ELSE LET rest == element_roots(element_sedes, Tail(items)) IN
              IF rest.err # "none" THEN rest
              ELSE Return(<<first.val>> \o rest.val)

hash_tree_root(value, sedes) ==
    LET serialized == sedes_serialize(sedes, value) IN
    IF serialized.err # "none" THEN serialized
    ELSE IF sedes.kind = "List"
    THEN LET roots == element_roots(sedes.element_sedes, value.v) IN
         IF roots.err # "none" THEN roots
         ELSE Return(mix_in_length(merkleize(roots.val), Len(value.v)))
    ELSE Return(merkleize(chunkify(serialized.val)))

(***************************************************************************)
(* Inputs                                                                  *)
(***************************************************************************)
SeqsUpTo(S, n) == UNION {[1..k -> S] : k \in 0..n}

\* bytes the enumerated inputs are made of: the least, the next and the greatest
DataBytes == {0, 1, ByteBase - 1}

ByteStrings == SeqsUpTo(DataBytes, MaxDataLen)

\* non-empty trailing bytes appended to an encoding
Trailers == {<<b>> : b \in DataBytes} \cup {<<0, 0>>}

ScalarSedes == {boolean, uint16, uint32, uint512}

IsScalar(s) == s.kind \in {"Boolean", "UInt"}

\* how many List sedes are nested in s
RECURSIVE Nesting(_)
Nesting(s) == IF s.kind = "List" THEN 1 + Nesting(s.element_sedes) ELSE 0

IntValues == {1, 2, 3}

\* the values a sedes is given inside a nested list: a few of its valid ones
RECURSIVE InnerValues(_)
InnerValues(s) ==
    CASE s.kind = "Boolean" -> {PyBool(TRUE), PyBool(FALSE)}
      [] s.kind = "UInt" -> {PyInt(1), PyInt(2)}
      [] s.kind = "List" ->
            {PyList(<<>>)} \cup {PyList(<<e>>) : e \in InnerValues(s.element_sedes)}
      [] OTHER -> {}

\* the values a sedes is given as the element of a top-level list
ElementValues(s) ==
    CASE s.kind = "Boolean" -> {PyBool(TRUE), PyBool(FALSE)}
      [] s.kind = "UInt" -> {PyInt(n) : n \in IntValues}
      [] OTHER -> InnerValues(s)

\* the valid values a sedes is given
ValidValues(s) ==
    IF s.kind = "List"
    THEN {PyList(xs) : xs \in SeqsUpTo(ElementValues(s.element_sedes), MaxElems)}
    ELSE ElementValues(s) \cup (IF s.kind = "UInt" THEN {PyInt(0)} ELSE {})

\* an empty tuple, and values that some or all sedes reject
OtherValues ==
    {PyTuple(<<>>), PyStr(""), PyStr("ab"), PyBytes(<<1>>), PyInt(1), PyNone,
     PyList(<<PyInt(0 - 1)>>), PyList(<<PyInt(1), PyInt(2)>>), PyList(<<PyBool(TRUE)>>)}

InputValues(s) == ValidValues(s) \cup OtherValues

\* the sedes arguments handed to encode, besides the sedes object itself
OtherSedesArgs ==
    {PyNone, PyStr(""), PyInt(0), PyInt(7), PyStr("uint32_list"), PyStr("boolean"),
     PyStr("no_such_sedes"), PyObject}

\* the values encoded with those arguments
FewValues ==
    {PyList(<<>>), PyList(<<PyInt(1), PyInt(2), PyInt(3)>>), PyList(<<PyBool(TRUE)>>),
     PyBool(FALSE), PyInt(1), PyStr("ab")}

\* the last successful serialization of val by sedes: none yet
NoEncoding == [ok |-> FALSE, by |-> "", v |-> <<>>]

Encoding(r, by) == IF r.err = "none" THEN [ok |-> TRUE, by |-> by, v |-> r.val] ELSE NoEncoding

(***************************************************************************)
(* State                                                                   *)
(***************************************************************************)
VARIABLES
    sedes,  \* the sedes object in use
    val,    \* the value last handed to serialize, encode or hash_tree_root
    enc,    \* the bytes sedes made of val, when it made some
    data,   \* the object last handed to deserialize_segment, deserialize or decode
    start,  \* the start_index last handed to deserialize_segment
    sarg,   \* the sedes argument last handed to encode
    op,     \* the operation last called
    out     \* what it returned or raised

vars == <<sedes, val, enc, data, start, sarg, op, out>>

\* A sedes holds no state of a call and no call changes it, so every call is
\* followed from a sedes on which nothing has been called yet.
Fresh == op \in {"import", "List"}

\* the module-level instances are built; nothing has been called
Init ==
    /\ sedes \in ScalarSedes \cup {boolean_list, empty_list, uint32_list}
    /\ val = PyNone
    /\ enc = NoEncoding
    /\ data = PyBytes(<<>>)
    /\ start = 0
    /\ sarg = PyNone
    /\ op = "import"
    /\ out = NoResult

\* List(element_sedes, empty): a new List sedes, or the constructor's error
Construct ==
    /\ Fresh
    /\ \E element_sedes \in {NoSedes, sedes} \cup ScalarSedes, empty \in BOOLEAN :
        /\ Nesting(element_sedes) < MaxNesting
        /\ LET r == List_init(element_sedes, empty) IN
           /\ out' = r
           /\ sedes' = IF r.err = "none" THEN r.val.v ELSE sedes
        /\ op' = "List"
        /\ val' = PyNone
        /\ enc' = NoEncoding
        /\ data' = PyBytes(<<>>)
        /\ start' = 0
        /\ sarg' = PyNone

\* sedes.serialize(v)
Serialize ==
    /\ Fresh
    /\ \E v \in InputValues(sedes) :
        LET r == sedes_serialize(sedes, v) IN
        /\ op' = "serialize"
        /\ val' = v
        /\ out' = r
        /\ enc' = Encoding(r, "serialize")
        /\ data' = PyBytes(<<>>)
        /\ start' = 0
        /\ sarg' = PyNone
        /\ UNCHANGED sedes

\* ssz.encode(v, a)
Encode ==
    /\ Fresh
    /\ \E p \in ({<<v, PySedes(sedes)>> : v \in InputValues(sedes)}
              \cup (FewValues \X OtherSedesArgs)) :
        LET r == encode(p[1], p[2]) IN
        /\ op' = "encode"
        /\ val' = p[1]
        /\ sarg' = p[2]
        /\ out' = r
        /\ enc' = IF p[2].t = "sedes" THEN Encoding(r, "encode") ELSE NoEncoding
        /\ data' = PyBytes(<<>>)
        /\ start' = 0
        /\ UNCHANGED sedes

\* sedes.deserialize_segment(d, i) of arbitrary bytes
DeserializeSegment ==
    /\ Fresh
    /\ \E d \in ByteStrings, i \in {0, 1} :
        /\ op' = "deserialize_segment"
        /\ data' = PyBytes(d)
        /\ start' = i
        /\ out' = sedes_deserialize_segment(sedes, d, i)
        /\ val' = PyNone
        /\ enc' = NoEncoding
        /\ sarg' = PyNone
        /\ UNCHANGED sedes

\* sedes.deserialize(d) of arbitrary bytes
Deserialize ==
    /\ Fresh
    /\ \E d \in ByteStrings :
        /\ op' = "deserialize"
        /\ data' = PyBytes(d)
        /\ start' = 0
        /\ out' = sedes_deserialize(sedes, d)
        /\ val' = PyNone
        /\ enc' = NoEncoding
        /\ sarg' = PyNone
        /\ UNCHANGED sedes

\* sedes.deserialize of the bytes sedes made of val, of a proper prefix of
\* them, or of them followed by trailing bytes
DeserializeEncoded ==
    /\ op = "serialize"
    /\ enc.ok
    /\ \E d \in {SubSeq(enc.v, 1, k) : k \in 0..Len(enc.v)}
                \cup {enc.v \o t : t \in Trailers} :
        /\ op' = "deserialize"
        /\ data' = PyBytes(d)
        /\ start' = 0
        /\ out' = sedes_deserialize(sedes, d)
        /\ UNCHANGED <<sedes, val, enc, sarg>>

\* ssz.decode(ssz, sedes) of what ssz.encode returned, as bytes or as text
Decode ==
    /\ op = "encode"
    /\ enc.ok
    /\ \E ssz \in {PyBytes(enc.v), PyStr("ab")} :
        /\ op' = "decode"
        /\ data' = ssz
        /\ start' = 0
        /\ out' = decode(ssz, sedes)
        /\ UNCHANGED <<sedes, val, enc, sarg>>

\* hash_tree_root(v, sedes)
HashTreeRoot ==
    /\ Fresh
    /\ \E v \in InputValues(sedes) :
        /\ op' = "hash_tree_root"
        /\ val' = v
        /\ out' = hash_tree_root(v, sedes)
        /\ enc' = NoEncoding
        /\ data' = PyBytes(<<>>)
        /\ start' = 0
        /\ sarg' = PyNone
        /\ UNCHANGED sedes

Next ==
    \/ Construct
    \/ Serialize
    \/ Encode
    \/ DeserializeSegment
    \/ Deserialize
    \/ DeserializeEncoded
    \/ Decode
    \/ HashTreeRoot

Spec == Init /\ [][Next]_vars

(***************************************************************************)
(* Properties                                                              *)
(***************************************************************************)
IsProperPrefix(p, e) == Len(p) < Len(e) /\ SubSeq(e, 1, Len(p)) = p

IsCollection(x) == x.t \in {"list", "tuple"}

Range(f) == {f[i] : i \in DOMAIN f}

\* component-wise equality of sequences, whether list or tuple
RECURSIVE SameElements(_, _)
SameElements(a, b) ==
    IF IsCollection(a) /\ IsCollection(b)
    THEN /\ Len(a.v) = Len(b.v)
         /\ \A i \in 1..Len(a.v) : SameElements(a.v[i], b.v[i])
    ELSE a.t = b.t /\ a.v = b.v

RECURSIVE Flatten(_)
Flatten(seqs) == IF Len(seqs) = 0 THEN <<>> ELSE Head(seqs) \o Flatten(Tail(seqs))

\* the encodings of the elements of a collection, each made on its own
ElementEncodings(element_sedes, items) ==
    [i \in 1..Len(items) |-> sedes_serialize(element_sedes, items[i])]

IsListSedes == sedes.kind = "List"

\* the encodings of the elements of val all exist and fit the length prefix
ElementDataFits ==
    LET encodings == ElementEncodings(sedes.element_sedes, val.v) IN
    /\ \A i \in DOMAIN encodings : encodings[i].err = "none"
    /\ Len(Flatten([i \in DOMAIN encodings |-> encodings[i].val]))
          < MAX_LEN_SERIALIZED_LIST_OBJECT

\* C1: for a List sedes s and a valid value v, encode(v, s) succeeds, and
\* decoding with s what it returned succeeds and returns a tuple with the
\* elements of v, in the same order and number.
C1_RoundTrip ==
    /\ (/\ op = "encode"
        /\ IsListSedes
        /\ sarg = PySedes(sedes)
        /\ val \in ValidValues(sedes)
        /\ ElementDataFits)
       => out.err = "none"
    /\ (/\ op = "decode"
        /\ IsListSedes
        /\ enc.ok
        /\ enc.by = "encode"
        /\ is_bytes(data)
        /\ data.v = enc.v)
       => /\ out.err = "none"
          /\ out.val.t = "tuple"
          /\ SameElements(out.val, val)

\* [1, 2, 3] encoded and decoded with List(uint32) gives (1, 2, 3)
C1_Witness ==
    /\ op = "decode"
    /\ sedes = uint32_list
    /\ val = PyList(<<PyInt(1), PyInt(2), PyInt(3)>>)
    /\ is_bytes(data)
    /\ data.v = enc.v
    /\ out.err = "none"
    /\ out.val = PyTuple(<<PyInt(1), PyInt(2), PyInt(3)>>)

\* C2: a List decode in which some element_sedes.deserialize_segment call
\* returned an index greater than list_end_index fails; no result is returned
\* in which an element consumed bytes beyond list_end_index.
C2_OvershootFails ==
    (/\ op \in {"deserialize_segment", "deserialize"}
     /\ IsListSedes
     /\ out.err = "none")
    => ~out.over

\* C3: deserialize of a proper prefix of a valid List encoding fails with
\* DeserializationError.
C3_TruncationRejected ==
    (/\ op = "deserialize"
     /\ IsListSedes
     /\ enc.ok
     /\ IsProperPrefix(data.v, enc.v))
    => out.err = "DeserializationError"

\* an encoding cut inside its element data was handed to deserialize
C3_Witness ==
    /\ op = "deserialize"
    /\ IsListSedes
    /\ enc.ok
    /\ IsProperPrefix(data.v, enc.v)
    /\ Len(data.v) > LIST_PREFIX_LENGTH
    /\ out.err = "DeserializationError"

\* C4: deserialize of a valid List encoding followed by trailing bytes fails
\* with DeserializationError (too long), and deserialize returns a value only
\* when deserialize_segment(data, 0) ends at len(data).
C4_TrailingBytesRejected ==
    (op = "deserialize" /\ IsListSedes)
    => /\ (enc.ok /\ IsProperPrefix(enc.v, data.v))
            => /\ out.err = "DeserializationError"
               /\ out.msg = "Data to be deserialized is too long"
       /\ out.err = "none"
            => LET r == sedes_deserialize_segment(sedes, data.v, 0) IN
               r.err = "none" /\ r.end = Len(data.v)

\* a non-empty encoding followed by trailing bytes was handed to deserialize
C4_Witness ==
    /\ op = "deserialize"
    /\ IsListSedes
    /\ enc.ok
    /\ Len(enc.v) > LIST_PREFIX_LENGTH
    /\ IsProperPrefix(enc.v, data.v)
    /\ out.msg = "Data to be deserialized is too long"

\* C5: what List.serialize returns is a LIST_PREFIX_LENGTH-byte prefix
\* followed by the encodings of the elements in order, the prefix being the
\* big-endian byte length of what follows it; when the element encodings take
\* MAX_LEN_SERIALIZED_LIST_OBJECT bytes or more, SerializationError is raised.
C5_LengthPrefix ==
    (op = "serialize" /\ IsListSedes)
    => /\ out.err = "none"
            => LET encodings == ElementEncodings(sedes.element_sedes, val.v)
                   body == Flatten([i \in DOMAIN encodings |-> encodings[i].val])
               IN  /\ Len(out.val) = LIST_PREFIX_LENGTH + Len(body)
                   /\ SubSeq(out.val, LIST_PREFIX_LENGTH + 1, Len(out.val)) = body
                   /\ from_bytes(SubSeq(out.val, 1, LIST_PREFIX_LENGTH)) = Len(body)
                   /\ Len(body) < MAX_LEN_SERIALIZED_LIST_OBJECT
       /\ (/\ IsCollection(val)
           /\ ~(sedes.empty /\ Len(val.v) # 0)
           /\ LET encodings == ElementEncodings(sedes.element_sedes, val.v) IN
              /\ \A i \in DOMAIN encodings : encodings[i].err = "none"
              /\ Len(Flatten([i \in DOMAIN encodings |-> encodings[i].val]))
                    >= MAX_LEN_SERIALIZED_LIST_OBJECT)
            => out.err = "SerializationError"

\* serialize returned for a list whose elements take several bytes each
C5_Witness ==
    /\ op = "serialize"
    /\ IsListSedes
    /\ out.err = "none"
    /\ Len(val.v) = 2
    /\ Len(out.val) > LIST_PREFIX_LENGTH + Len(val.v)

C7_SedesResolution ==
    op = "encode"
    => /\ InRegistry(sarg)
            => out = WithCalls(sedes_serialize(sedes_by_name[sarg.v], val), out.calls)
       /\ (sarg.t # "NoneType" /\ ~InRegistry(sarg) /\ ~is_sedes(sarg))
            => /\ out.err = "InvalidSedesError"
               /\ "serialize" \notin Range(out.calls)
       /\ "infer_sedes" \in Range(out.calls) => sarg.t = "NoneType"

\* C8: the root of a fixed-size scalar whose serialization is at most 32
\* bytes is the serialization right-padded with zero bytes to 32 bytes;
\* True gives 0x01 and 31 zero bytes, False gives 32 zero bytes.
C8_SingleChunkRoot ==
    (op = "hash_tree_root" /\ IsScalar(sedes))
    => LET serialized == sedes_serialize(sedes, val) IN
       /\ (serialized.err = "none" /\ Len(serialized.val) <= CHUNK_SIZE)
            => /\ out.err = "none"
               /\ out.val = serialized.val \o Zeros(CHUNK_SIZE - Len(serialized.val))
       /\ (sedes = Boolean /\ val = PyBool(TRUE))
            => out.val = <<1>> \o Zeros(CHUNK_SIZE - 1)
       /\ (sedes = Boolean /\ val = PyBool(FALSE))
            => out.val = Zeros(CHUNK_SIZE)

\* the root of True was computed
C8_Witness ==
    /\ op = "hash_tree_root"
    /\ sedes = Boolean
    /\ val = PyBool(TRUE)
    /\ out.err = "none"

\* C9: hash_tree_root of a value its sedes serializes returns exactly 32 bytes.
C9_RootWidth ==
    (op = "hash_tree_root" /\ sedes_serialize(sedes, val).err = "none")
    => /\ out.err = "none"
       /\ Len(out.val) = CHUNK_SIZE
       /\ \A i \in 1..Len(out.val) : out.val[i] \in 0..(ByteBase - 1)

\* the root of a two-chunk scalar was computed
C9_Witness ==
    /\ op = "hash_tree_root"
    /\ sedes = uint512
    /\ val = PyInt(3)
    /\ out.err = "none"

\* C10: deserialize and deserialize_segment of the empty-only List sedes never
\* return a non-empty sequence, and input whose length prefix is nonzero with
\* the declared bytes present is rejected with DeserializationError.
C10_EmptyOnlyDecode ==
    (/\ op \in {"deserialize_segment", "deserialize"}
     /\ IsListSedes
     /\ sedes.empty)
    => /\ out.err = "none" => out.val = PyTuple(<<>>)
       /\ (/\ Len(data.v) >= start + LIST_PREFIX_LENGTH
           /\ LET list_length ==
                      from_bytes(Slice(data.v, start, start + LIST_PREFIX_LENGTH))
              IN  /\ list_length # 0
                  /\ Len(data.v) >= start + LIST_PREFIX_LENGTH + list_length)
            => out.err = "DeserializationError"

====
